---- MODULE Spec2Model ----
(***************************************************************************)
(* Camera identity, photo signing and photo decryption of the              *)
(* blockchain-based video surveillance system.                             *)
(*                                                                         *)
(*   script/autenticazioneCamera/generate_camera_id.py  generate_camera_id *)
(*   script/autenticazioneCamera/sign_photo.py          sign_photo         *)
(*   mqtt-go/decrypt_from_cid.py    pkcs7_unpad, decrypt_aes_cbc, main     *)
(*                                                                         *)
(* Byte strings are sequences of 0..255, hex strings sequences of nibbles  *)
(* 0..15 (16 stands for a character that is no hex digit), text strings    *)
(* sequences of code points.  Keccak-256 and ECDSA are modelled            *)
(* symbolically (a digest is the term keccak256(preimage), a signature the *)
(* term ecdsa(key, digest)); the AES block primitive is a keyed            *)
(* permutation of 16-byte blocks under real CBC chaining.                  *)
(***************************************************************************)
EXTENDS Integers, Sequences, FiniteSets, TLC

VARIABLES op, args, ret, encoded,
          mpc, margs, meta, iv, cipher_bytes, source, outfile, exit_code,
          key_file, proc, calls, saved

codecVars == <<op, args, ret, encoded>>
mainVars == <<mpc, margs, meta, iv, cipher_bytes, source, outfile, exit_code>>
keystoreVars == <<key_file, proc, calls, saved>>
vars == <<op, args, ret, encoded,
          mpc, margs, meta, iv, cipher_bytes, source, outfile, exit_code,
          key_file, proc, calls, saved>>

(***************************************************************************)
(* Bounds of the model.                                                    *)
(***************************************************************************)
MaxStrLen == 3
MaxPlainLen == 17
MaxDataLen == 18

\* calls of save_private_key in a run, and the processes that make them
MaxSaves == 3
NumProcs == 2

(***************************************************************************)
(* Program constants.                                                      *)
(***************************************************************************)
BlockSize == 16
KeySize == 16
IvSize == 16

(***************************************************************************)
(* Generic helpers on sequences.                                           *)
(***************************************************************************)
Rep(n, v) == [i \in 1..n |-> v]

Max(a, b) == IF a > b THEN a ELSE b

Last(s) == s[Len(s)]

\* Python s[-n:] for n > 0: the last n elements, the whole of s when n > len(s)
Tail_n(s, n) == SubSeq(s, Max(Len(s) - n, 0) + 1, Len(s))

\* Python s[:-n] for n > 0
DropLast_n(s, n) == SubSeq(s, 1, Max(Len(s) - n, 0))

RECURSIVE Flatten(_)
Flatten(ss) == IF ss = <<>> THEN <<>> ELSE Head(ss) \o Flatten(Tail(ss))

RECURSIVE XorBits(_, _, _)
XorBits(a, b, n) ==
    IF n = 0 THEN 0
    ELSE (((a % 2) + (b % 2)) % 2) + 2 * XorBits(a \div 2, b \div 2, n - 1)

Xor8(a, b) == XorBits(a, b, 8)

XorBlock(x, y) == [i \in 1..Len(x) |-> Xor8(x[i], y[i])]

(***************************************************************************)
(* Results of calls: a returned value, or a raised exception with its      *)
(* class, its message and the source line that raised it.                  *)
(***************************************************************************)
Ok(v) == [ok |-> TRUE, val |-> v, exc |-> "", msg |-> "", line |-> 0]

Raise(cls, text, ln) == [ok |-> FALSE, val |-> <<>>, exc |-> cls, msg |-> text, line |-> ln]

(***************************************************************************)
(* Text and hex conversions.                                               *)
(***************************************************************************)
\* str.encode("utf-8") of one code point
Utf8Char(c) ==
    IF c < 128 THEN <<c>>
    ELSE IF c < 2048 THEN <<192 + (c \div 64), 128 + (c % 64)>>
    ELSE <<224 + (c \div 4096), 128 + ((c \div 64) % 64), 128 + (c % 64)>>

Utf8(s) == Flatten([i \in 1..Len(s) |-> Utf8Char(s[i])])

\* bytes -> hex digits, two per byte, high nibble first
HexDigits(b) == [i \in 1..(2 * Len(b)) |->
                    IF i % 2 = 1 THEN b[(i + 1) \div 2] \div 16
                    ELSE b[i \div 2] % 16]

IsHex(h) == \A i \in 1..Len(h) : h[i] < 16

\* eth_utils.to_bytes(hexstr=h), h without its 0x: an odd number of digits
\* is padded on the left with one 0
BytesOfHexDigits(h) ==
    LET e == IF Len(h) % 2 = 1 THEN <<0>> \o h ELSE h
    IN [i \in 1..(Len(e) \div 2) |-> 16 * e[2 * i - 1] + e[2 * i]]

RECURSIVE StripZeros(_)
StripZeros(h) == IF h # <<>> /\ Head(h) = 0 THEN StripZeros(Tail(h)) ELSE h

\* str.zfill(n)
ZFill(h, n) == IF Len(h) >= n THEN h ELSE Rep(n - Len(h), 0) \o h

(***************************************************************************)
(* Byte strings with symbolic parts.  A byte string is raw bytes followed  *)
(* by symbolic chunks (digests, signatures), each of a known length.       *)
(***************************************************************************)
Raw(b) == [raw |-> b, sym |-> <<>>]

Chunk(kind, m, key, n) == [kind |-> kind, of |-> m, key |-> key, len |-> n]

Sym(c) == [raw |-> <<>>, sym |-> <<c>>]

RECURSIVE ChunksLen(_)
ChunksLen(cs) == IF cs = <<>> THEN 0 ELSE Head(cs).len + ChunksLen(Tail(cs))

ByteLen(m) == Len(m.raw) + ChunksLen(m.sym)

\* x + y on byte strings
Concat(x, y) ==
    IF x.sym = <<>> THEN [raw |-> x.raw \o y.raw, sym |-> y.sym]
    ELSE [raw |-> x.raw,
          sym |-> x.sym
                  \o (IF y.raw = <<>> THEN <<>>
                      ELSE <<Chunk("raw", Raw(y.raw), 0, Len(y.raw))>>)
                  \o y.sym]

\* Web3.keccak(m) / eth_utils.keccak(m): the 32-byte Keccak-256 digest, a term
Keccak256(m) == Sym(Chunk("keccak256", m, 0, 32))

\* HexBytes.hex(): the hex string of a byte string; whether it carries the
\* 0x prefix depends on the installed hexbytes release (pfx)
HexOf(m, pfx) == [prefixed |-> pfx, digits |-> HexDigits(m.raw), sym |-> m.sym]

\* eth_utils.to_bytes(hexstr=h): the 0x prefix is optional
BytesOfHexStr(h) == [raw |-> BytesOfHexDigits(h.digits), sym |-> h.sym]

\* eth_utils.to_bytes(text=h) of a hex string: its characters as UTF-8
BytesOfHexText(h) ==
    LET m == BytesOfHexStr(h)
        n == 2 * ByteLen(m) + (IF h.prefixed THEN 2 ELSE 0)
    IN Sym(Chunk("hextext", m, IF h.prefixed THEN 1 ELSE 0, n))

\* str(n).encode() for 0 <= n < 1000
DecimalAscii(n) ==
    IF n < 10 THEN <<48 + n>>
    ELSE IF n < 100 THEN <<48 + (n \div 10), 48 + (n % 10)>>
    ELSE <<48 + (n \div 100), 48 + ((n \div 10) % 10), 48 + (n % 10)>>

(***************************************************************************)
(* Python values handed to sign_photo.                                     *)
(***************************************************************************)
\* an int: sign and magnitude, the magnitude big-endian without leading zeros
PyInt(neg, mag) == [neg |-> neg, mag |-> mag]

\* a photo hash given as a str of hex digits (with or without 0x)
HashStr(pfx, d) == [t |-> "str", prefixed |-> pfx, digits |-> d, b |-> <<>>]

\* a photo hash given as bytes
HashBytes(b) == [t |-> "bytes", prefixed |-> FALSE, digits |-> <<>>, b |-> b]

\* a private key: its length in bytes, whether its scalar is below the curve
\* order, and which key it is
PrivKey(n, scalar, id) == [len |-> n, scalar |-> scalar, id |-> id]

(***************************************************************************)
(* generate_camera_id.py                                                   *)
(***************************************************************************)
\* a slip: the padded encoding of abi.encode (length word, data right-padded
\* to a multiple of 32 bytes) in place of the packed one
EncodePackedValuePadded(t, v) ==
    LET b == Utf8(v)
    IN Rep(31, 0) \o <<Len(b)>> \o b \o Rep((32 - (Len(b) % 32)) % 32, 0)

\* eth_abi.packed.encode_packed for one value of type string
EncodePackedValue(t, v) == CASE t = "string" -> Utf8(v)

\* a slip: the fields kept apart by a unit separator
EncodePackedSeparated(types, values) ==
    Flatten([i \in 1..Len(types) |->
        (IF i > 1 THEN <<31>> ELSE <<>>) \o EncodePackedValue(types[i], values[i])])

\* eth_abi.packed.encode_packed(types, values)
EncodePacked(types, values) ==
    Flatten([i \in 1..Len(types) |-> EncodePackedValue(types[i], values[i])])

\* a slip: the NIST SHA3-256 digest in place of Keccak-256
generate_camera_id_sha3(mac_address, efuse_id, pfx) ==
    LET enc == EncodePacked(<<"string", "string">>, <<mac_address, efuse_id>>)
    IN HexOf(Sym(Chunk("sha3_256", Raw(enc), 0, 32)), pfx)

generate_camera_id(mac_address, efuse_id, pfx) ==
    LET enc == EncodePacked(<<"string", "string">>, <<mac_address, efuse_id>>)
        camera_id == Keccak256(Raw(enc))
    IN HexOf(camera_id, pfx)


(***************************************************************************)
(* sign_photo.py                                                           *)
(***************************************************************************)
\* hex(n) of a non-negative int, without its 0x
IntHex(n) == LET h == StripZeros(HexDigits(n.mag)) IN IF h = <<>> THEN <<0>> ELSE h

\* web3 hex_encode_abi_type(abi_type, value), without the 0x, after
\* validate_abi_value: a bytes value is hex-encoded and a str value taken as
\* it is (neither is measured against the 32 of bytes32), an uint is left-padded
\* with zeros to 64 digits (and not cut when it has more)
HexEncodeAbiType(t, v) ==
    CASE t = "bytes32" ->
           IF v.t = "bytes" THEN Ok(HexDigits(v.b))
           ELSE IF v.prefixed THEN Ok(v.digits)
           ELSE Raise("TypeError", "ABI values of abi-type 'bytes' must be bytes or 0x prefixed", 122)
      [] t = "string" -> Ok(HexDigits(Utf8(v)))
      [] t = "uint256" ->
           IF v.neg THEN Raise("TypeError", "The 'uint256' type is not supported for the value", 122)
           ELSE Ok(ZFill(IntHex(v), 64))

\* the bytes Web3.solidity_keccak hashes: the hex encodings joined and decoded
SolidityPacked(types, values) ==
    LET parts == [i \in 1..Len(types) |-> HexEncodeAbiType(types[i], values[i])]
        bad == {i \in 1..Len(types) : ~parts[i].ok}
        concat == Flatten([i \in 1..Len(types) |-> parts[i].val])
    IN IF bad # {} THEN parts[CHOOSE i \in bad : \A j \in bad : i <= j]
       ELSE IF ~IsHex(concat) THEN Raise("ValueError", "Non-hexadecimal digit found", 122)
       ELSE Ok(Raw(BytesOfHexDigits(concat)))

\* Web3.solidity_keccak(types, values)
SolidityKeccak(types, values) ==
    LET packed == SolidityPacked(types, values)
    IN IF packed.ok THEN Ok(Keccak256(packed.val)) ELSE packed

\* Account.from_key(private_key): the key must be 32 bytes and its scalar
\* below the curve order
AccountFromKey(private_key) ==
    IF private_key.len # 32
    THEN Raise("ValueError", "The private key must be exactly 32 bytes long", 113)
    ELSE IF private_key.scalar # "in_range"
    THEN Raise("Exception", "Invalid privkey", 113)
    ELSE Ok(private_key)

\* account.address
AddressOf(account) == [kind |-> "address", key |-> account.id, sig |-> <<>>, digest |-> <<>>]

\* b"thereum Signed Message:\n"
DefunctHeader == <<116, 104, 101, 114, 101, 117, 109, 32, 83, 105, 103, 110, 101, 100,
                   32, 77, 101, 115, 115, 97, 103, 101, 58, 10>>

\* the SignableMessage of a body: version b"E", header with the body's length
SignableMessage(body) ==
    [version |-> <<69>>, header |-> DefunctHeader \o DecimalAscii(ByteLen(body)), body |-> body]

\* encode_defunct(hexstr=h)
EncodeDefunctHexstr(h) == SignableMessage(BytesOfHexStr(h))

\* a slip: encode_defunct(text=h) signs the characters of the hex string
EncodeDefunctText(h) == SignableMessage(BytesOfHexText(h))

\* encode_defunct(hexstr=message_hash.hex()), sign_photo.py line 128
encode_defunct(h) == EncodeDefunctHexstr(h)

\* the EIP-191 digest of a SignableMessage: keccak(b"\x19" + version + header + body)
HashEip191(message) ==
    Keccak256(Concat(Raw(<<25>> \o message.version \o message.header), message.body))

\* account.sign_message(message): the ECDSA signature over the EIP-191 digest
SignMessage(account, message) ==
    LET sig == Chunk("ecdsa", HashEip191(message), account.id, 65)
    IN [signature |-> Sym(sig),
        r |-> [part |-> "r", of |-> sig],
        s |-> [part |-> "s", of |-> sig],
        v |-> [part |-> "v", of |-> sig]]

\* lines 116-118: a str photo hash gets its 0x
WithPrefix(photo_hash) ==
    IF photo_hash.t = "str" /\ ~photo_hash.prefixed
    THEN [photo_hash EXCEPT !.prefixed = TRUE]
    ELSE photo_hash

SignTypes == <<"bytes32", "string", "string", "uint256">>

\* a slip: the nonce left out of the signed tuple (signed as 0)
SignValuesNoNonce(photo_hash, location, metadata, nonce) ==
    <<WithPrefix(photo_hash), location, metadata, PyInt(FALSE, <<>>)>>

\* the values sign_photo hands to Web3.solidity_keccak, lines 122-125
SignValues(photo_hash, location, metadata, nonce) ==
    <<WithPrefix(photo_hash), location, metadata, nonce>>

sign_photo(private_key, photo_hash, location, metadata, nonce, pfx) ==
    LET account == AccountFromKey(private_key)
        message_hash == SolidityKeccak(SignTypes, SignValues(photo_hash, location, metadata, nonce))
        message == encode_defunct(HexOf(message_hash.val, pfx))
        signed_message == SignMessage(account.val, message)
    IN IF ~account.ok THEN account
       ELSE IF ~message_hash.ok THEN message_hash
       ELSE Ok([photo_hash |-> WithPrefix(photo_hash),
                location |-> location,
                metadata |-> metadata,
                nonce |-> nonce,
                signature |-> HexOf(signed_message.signature, pfx),
                camera_address |-> AddressOf(account.val),
                r |-> signed_message.r,
                s |-> signed_message.s,
                v |-> signed_message.v])

\* ECDSA public-key recovery of a signature over a digest: the signer's address
\* when the digest is the signed one, an unrelated address otherwise
Recover(digest, signature) ==
    LET sig == signature.sym[1]
    IN IF sig.of = digest
       THEN [kind |-> "address", key |-> sig.key, sig |-> <<>>, digest |-> <<>>]
       ELSE [kind |-> "address", key |-> 0, sig |-> <<sig>>, digest |-> <<digest>>]

(***************************************************************************)
(* Inputs of the codec calls.                                              *)
(***************************************************************************)
\* "abcd" and a two-byte code point
BaseText == <<97, 98, 99, 100, 233>>

Strings == {SubSeq(BaseText, i, j) : i \in 1..Len(BaseText), j \in 0..Len(BaseText)}

StringsUpTo(n) == {s \in Strings : Len(s) <= n}

Digest32(seed) == [i \in 1..32 |-> (seed + 7 * i) % 256]

PhotoHashes ==
    { HashStr(TRUE, HexDigits(Digest32(1))),
      HashStr(FALSE, HexDigits(Digest32(1))),
      HashBytes(Digest32(2)),
      HashBytes(SubSeq(Digest32(2), 1, 31)),
      HashStr(TRUE, HexDigits(Digest32(1) \o <<5>>)),
      HashStr(FALSE, <<1, 2, 3>>),
      HashStr(TRUE, <<16, 16>>),
      HashBytes(<<>>) }

\* 0, 1, 255, 256, 2^256 - 1, 2^256, -1
Nonces ==
    { PyInt(FALSE, <<>>), PyInt(FALSE, <<1>>), PyInt(FALSE, <<255>>), PyInt(FALSE, <<1, 0>>),
      PyInt(FALSE, Rep(32, 255)), PyInt(FALSE, <<1>> \o Rep(32, 0)), PyInt(TRUE, <<1>>) }

PrivateKeys ==
    { PrivKey(32, "in_range", 1), PrivKey(32, "in_range", 2),
      PrivKey(32, "ge_order", 3), PrivKey(31, "in_range", 4) }

(***************************************************************************)
(* get_camera_wallet.py: the key file camera_keys.json and the processes   *)
(* that call save_private_key.  The file is absent, empty (opened for      *)
(* writing and not written yet), a JSON dict of cameras, or no JSON.       *)
(***************************************************************************)
Procs == 1..NumProcs

\* camera ids, as the user types them
CameraNames == {"camA", "camB", "camC"}

\* keys = {}
EmptyKeys == [c \in {} |-> 0]

\* a process that is not in a call
IdleProc == [pc |-> "idle", camera_id |-> "", wallet_data |-> 0, keys |-> EmptyKeys]

(***************************************************************************)
(* State and calls of the codec.  Every call is independent of the others: *)
(* a behaviour is one call, made from the initial state.                   *)
(***************************************************************************)
Init ==
    /\ op = "none"
    /\ args = <<>>
    /\ ret = Ok(<<>>)
    /\ encoded = Ok(Raw(<<>>))
    /\ mpc = "idle"
    /\ margs = <<>>
    /\ meta = [file_cid |-> <<>>, dir_cid |-> <<>>, name |-> <<>>, iv_hex |-> <<>>]
    /\ iv = <<>>
    /\ cipher_bytes = <<>>
    /\ source = "none"
    /\ outfile = <<>>
    /\ exit_code = -1
    /\ key_file = [state |-> "absent", keys |-> EmptyKeys]
    /\ proc = [p \in Procs |-> IdleProc]
    /\ calls = <<>>
    /\ saved = {}

CallGenerateCameraId ==
    /\ op = "none"
    /\ \E m \in StringsUpTo(MaxStrLen), e \in StringsUpTo(MaxStrLen), pfx \in BOOLEAN :
        /\ op' = "generate_camera_id"
        /\ args' = [mac_address |-> m, efuse_id |-> e, pfx |-> pfx]
        /\ encoded' = Ok(Raw(EncodePacked(<<"string", "string">>, <<m, e>>)))
        /\ ret' = Ok(generate_camera_id(m, e, pfx))
        /\ UNCHANGED <<mainVars, keystoreVars>>

CallSignPhoto ==
    /\ op = "none"
    /\ \E k \in PrivateKeys, h \in PhotoHashes, l \in StringsUpTo(MaxStrLen - 1),
       md \in StringsUpTo(MaxStrLen - 2), n \in Nonces, pfx \in BOOLEAN :
        /\ op' = "sign_photo"
        /\ args' = [private_key |-> k, photo_hash |-> h, location |-> l,
                    metadata |-> md, nonce |-> n, pfx |-> pfx]
        /\ encoded' = SolidityPacked(SignTypes, SignValues(h, l, md, n))
        /\ ret' = sign_photo(k, h, l, md, n, pfx)
        /\ UNCHANGED <<mainVars, keystoreVars>>

NextCodec == CallGenerateCameraId \/ CallSignPhoto

SpecCodec == Init /\ [][NextCodec]_vars


(***************************************************************************)
(* Properties of the codec.                                                *)
(***************************************************************************)
\* the bytes of a photo hash argument
PhotoHashBytes(h) == IF h.t = "bytes" THEN h.b ELSE BytesOfHexDigits(h.digits)

\* the photo hash is exactly 32 bytes
IsBytes32(h) ==
    IF h.t = "bytes" THEN Len(h.b) = 32 ELSE Len(h.digits) = 64 /\ IsHex(h.digits)

\* the nonce fits in 256 bits: 0 <= nonce < 2^256
IsUint256(n) == ~n.neg /\ Len(n.mag) <= 32

\* the private key is a valid secp256k1 scalar
IsValidKey(k) == k.len = 32 /\ k.scalar = "in_range"

\* a 32-byte big-endian integer
BigEndian32(n) == Rep(32 - Len(n.mag), 0) \o n.mag

\* packed(photoHash, location, metadata, nonce): the fields one after the other
ExpectedPacked(a) ==
    PhotoHashBytes(a.photo_hash) \o Utf8(a.location) \o Utf8(a.metadata) \o BigEndian32(a.nonce)

\* "\x19Ethereum Signed Message:\n32"
PersonalPrefix32 ==
    <<25, 69, 116, 104, 101, 114, 101, 117, 109, 32, 83, 105, 103, 110, 101, 100,
      32, 77, 101, 115, 115, 97, 103, 101, 58, 10, 51, 50>>

\* keccak("\x19Ethereum Signed Message:\n32" || inner)
PersonalDigest(inner) == Keccak256(Concat(Raw(PersonalPrefix32), inner))

\* C1: generate_camera_id(mac, efuse) is the hex string of
\* Keccak256(bytes of mac followed by bytes of efuse), a 32-byte value that is
\* a function of the two arguments alone
C1_CameraIdIsKeccakOfPacked ==
    op = "generate_camera_id" =>
        /\ ret.ok
        /\ BytesOfHexStr(ret.val) = Keccak256(Raw(Utf8(args.mac_address) \o Utf8(args.efuse_id)))
        /\ ByteLen(BytesOfHexStr(ret.val)) = 32

C1_Witness ==
    /\ op = "generate_camera_id"
    /\ args.mac_address = <<97, 98>>
    /\ args.efuse_id = <<100, 233>>
    /\ BytesOfHexStr(ret.val) = Keccak256(Raw(<<97, 98, 100, 195, 169>>))

\* C2: the packed encoding is the concatenation of the field encodings in
\* argument order, no separators, no length prefixes: strings as their raw
\* bytes, bytes32 as its 32 bytes, uint256 as 32 big-endian bytes; ("ab","cd")
\* encodes to 0x61 0x62 0x63 0x64
C2_PackedIsConcatenation ==
    /\ op = "generate_camera_id" =>
          /\ encoded = Ok(Raw(Utf8(args.mac_address) \o Utf8(args.efuse_id)))
          /\ (args.mac_address = <<97, 98>> /\ args.efuse_id = <<99, 100>>)
                => encoded.val.raw = <<97, 98, 99, 100>>
    /\ (op = "sign_photo" /\ IsBytes32(args.photo_hash) /\ IsUint256(args.nonce)) =>
          /\ encoded = Ok(Raw(ExpectedPacked(args)))
          /\ Len(encoded.val.raw) = 64 + Len(Utf8(args.location)) + Len(Utf8(args.metadata))

C2_Witness ==
    /\ op = "generate_camera_id"
    /\ args.mac_address = <<97, 98>>
    /\ args.efuse_id = <<99, 100>>
    /\ encoded.val.raw = <<97, 98, 99, 100>>

\* C13: the camera identifier depends only on the byte concatenation
\* macAddress || efuseId: any two pairs (m1, e1) and (m2, e2) with
\* m1 || e1 = m2 || e2, such as ("ab","cd") and ("a","bcd"), are given the
\* same identifier
C13_SameConcatenationSameId ==
    op = "generate_camera_id" =>
        \A m2 \in StringsUpTo(MaxStrLen), e2 \in StringsUpTo(MaxStrLen) :
            (Utf8(m2) \o Utf8(e2) = Utf8(args.mac_address) \o Utf8(args.efuse_id))
                => generate_camera_id(m2, e2, args.pfx) = ret.val

\* ("a","bcd") is given the identifier of ("ab","cd")
C13_Witness ==
    /\ op = "generate_camera_id"
    /\ args.mac_address = <<97>>
    /\ args.efuse_id = <<98, 99, 100>>
    /\ ret.val = generate_camera_id(<<97, 98>>, <<99, 100>>, args.pfx)
    /\ ret.val # generate_camera_id(<<97, 98>>, <<99>>, args.pfx)

\* the signed tuple: a 32-byte hash, "ab", "a" and the nonce 256
C2_SignedTupleReached ==
    /\ op = "sign_photo"
    /\ IsBytes32(args.photo_hash)
    /\ args.location = <<97, 98>>
    /\ args.metadata = <<97>>
    /\ args.nonce = PyInt(FALSE, <<1, 0>>)
    /\ SubSeq(encoded.val.raw, 33, 67) = <<97, 98, 97>> \o Rep(30, 0) \o <<1, 0>>

\* C3: for a valid key and a well-formed (photoHash, location, metadata,
\* nonce), sign_photo returns a signature that recovers, over the personal
\* message digest of keccak(packed(...)), to the key's address, which is the
\* record's camera_address
C3_SignatureRecoversToSigner ==
    op = "sign_photo" =>
        /\ (IsValidKey(args.private_key) /\ IsBytes32(args.photo_hash) /\ IsUint256(args.nonce))
              => /\ ret.ok
                 /\ Recover(PersonalDigest(Keccak256(Raw(ExpectedPacked(args)))),
                            BytesOfHexStr(ret.val.signature))
                       = AddressOf(args.private_key)
        /\ ret.ok =>
              /\ ret.val.camera_address = AddressOf(args.private_key)
              /\ Recover(PersonalDigest(Keccak256(encoded.val)), BytesOfHexStr(ret.val.signature))
                    = ret.val.camera_address
              /\ ByteLen(BytesOfHexStr(ret.val.signature)) = 65

C3_Witness ==
    /\ op = "sign_photo"
    /\ ret.ok
    /\ IsBytes32(args.photo_hash)
    /\ args.nonce = PyInt(FALSE, <<255>>)
    /\ args.location = <<98, 99>>
    /\ args.private_key.id = 2
    /\ ret.val.camera_address.key = 2
    /\ Recover(PersonalDigest(Keccak256(Raw(ExpectedPacked(args)))),
               BytesOfHexStr(ret.val.signature)) = ret.val.camera_address

Nonce0 == PyInt(FALSE, <<>>)
Nonce1 == PyInt(FALSE, <<1>>)

\* the same call with another nonce
SignedWithNonce(n) ==
    sign_photo(args.private_key, args.photo_hash, args.location, args.metadata, n, args.pfx)

\* C4: with the same key, photoHash, location and metadata, the signatures for
\* nonce 0 and nonce 1 differ, and neither recovers to the signer over the
\* digest built with the other nonce
C4_NonceSensitivity ==
    (op = "sign_photo" /\ ret.ok /\ args.nonce = Nonce0) =>
        LET sig0 == BytesOfHexStr(ret.val.signature)
            other == SignedWithNonce(Nonce1)
            sig1 == BytesOfHexStr(other.val.signature)
            digest0 == PersonalDigest(Keccak256(Raw(ExpectedPacked(args))))
            digest1 == PersonalDigest(Keccak256(Raw(ExpectedPacked([args EXCEPT !.nonce = Nonce1]))))
        IN /\ other.ok
           /\ sig0 # sig1
           /\ ret.val.signature # other.val.signature
           /\ Recover(digest1, sig0) # AddressOf(args.private_key)
           /\ Recover(digest0, sig1) # AddressOf(args.private_key)
           /\ IsBytes32(args.photo_hash) =>
                 /\ Recover(digest0, sig0) = AddressOf(args.private_key)
                 /\ Recover(digest1, sig1) = AddressOf(args.private_key)

C4_Witness ==
    /\ op = "sign_photo"
    /\ ret.ok
    /\ args.nonce = Nonce0
    /\ IsBytes32(args.photo_hash)
    /\ SignedWithNonce(Nonce1).ok
    /\ SignedWithNonce(Nonce1).val.signature # ret.val.signature

\* C9: sign_photo fails, returning no record, when the key is no valid
\* secp256k1 scalar, when photoHash is not exactly 32 bytes, or when the nonce
\* does not fit in 256 bits
C9_SignRejectsMalformedInput ==
    (op = "sign_photo"
       /\ (~IsValidKey(args.private_key) \/ ~IsBytes32(args.photo_hash) \/ ~IsUint256(args.nonce)))
        => ~ret.ok


(***************************************************************************)
(* decrypt_from_cid.py: pkcs7_unpad, decrypt_aes_cbc                       *)
(***************************************************************************)
\* the AES block primitive, encryption direction: a keyed permutation of
\* BlockSize-byte blocks
AesEncryptBlock(key, b) ==
    [i \in 1..BlockSize |-> (b[BlockSize + 1 - i] + key[((i - 1) % Len(key)) + 1] + i) % 256]

\* the AES block primitive, decryption direction: the inverse permutation
AesDecryptBlock(key, c) ==
    [j \in 1..BlockSize |->
        LET i == BlockSize + 1 - j
        IN (c[i] - key[((i - 1) % Len(key)) + 1] - i + 512) % 256]

BlockOf(data, i) == SubSeq(data, BlockSize * (i - 1) + 1, BlockSize * i)

\* CBC decryption of whole blocks: P(i) = D(C(i)) xor C(i-1), C(0) = iv
CbcDecrypt(key, iv0, ct) ==
    Flatten([i \in 1..(Len(ct) \div BlockSize) |->
        XorBlock(AesDecryptBlock(key, BlockOf(ct, i)),
                 IF i = 1 THEN iv0 ELSE BlockOf(ct, i - 1))])

\* AES.new(key, AES.MODE_CBC, iv).decrypt(ciphertext): data that is not whole
\* blocks is refused; no data decrypts to no data
AesCbcDecrypt(key, iv0, ct) ==
    IF Len(ct) % BlockSize # 0
    THEN Raise("ValueError", "Data must be padded to 16 byte boundary in CBC mode", 55)
    ELSE Ok(CbcDecrypt(key, iv0, ct))

\* a slip: the pad length byte itself is left in the plaintext
pkcs7_unpad_keeps_one(data) ==
    IF data = <<>> THEN Raise("ValueError", "plaintext vuoto", 40)
    ELSE LET pad_len == Last(data)
         IN IF pad_len = 0 \/ pad_len > BlockSize
            THEN Raise("ValueError", "padding non valido", 43)
            ELSE IF Tail_n(data, pad_len) # Rep(pad_len, pad_len)
            THEN Raise("ValueError", "padding non valido", 45)
            ELSE Ok(DropLast_n(data, pad_len - 1))

\* a slip: only the last byte is looked at, not the whole pad
pkcs7_unpad_last_byte_only(data) ==
    IF data = <<>> THEN Raise("ValueError", "plaintext vuoto", 40)
    ELSE LET pad_len == Last(data)
         IN IF pad_len = 0 \/ pad_len > BlockSize
            THEN Raise("ValueError", "padding non valido", 43)
            ELSE Ok(DropLast_n(data, pad_len))

pkcs7_unpad(data) ==
    IF data = <<>> THEN Raise("ValueError", "plaintext vuoto", 40)
    ELSE LET pad_len == Last(data)
         IN IF pad_len = 0 \/ pad_len > BlockSize
            THEN Raise("ValueError", "padding non valido", 43)
            ELSE IF Tail_n(data, pad_len) # Rep(pad_len, pad_len)
            THEN Raise("ValueError", "padding non valido", 45)
            ELSE Ok(DropLast_n(data, pad_len))

\* a slip: the IV is checked before the key
decrypt_aes_cbc_iv_first(ciphertext, key, iv0) ==
    IF Len(iv0) # IvSize THEN Raise("ValueError", "IV deve essere di 16 byte", 53)
    ELSE IF Len(key) # KeySize
    THEN Raise("ValueError", "AES-128 richiede una chiave di 16 byte", 51)
    ELSE LET plain == AesCbcDecrypt(key, iv0, ciphertext)
         IN IF plain.ok THEN pkcs7_unpad(plain.val) ELSE plain

decrypt_aes_cbc(ciphertext, key, iv0) ==
    IF Len(key) # KeySize
    THEN Raise("ValueError", "AES-128 richiede una chiave di 16 byte", 51)
    ELSE IF Len(iv0) # IvSize THEN Raise("ValueError", "IV deve essere di 16 byte", 53)
    ELSE LET plain == AesCbcDecrypt(key, iv0, ciphertext)
         IN IF plain.ok THEN pkcs7_unpad(plain.val) ELSE plain

(***************************************************************************)
(* The encrypting side (the camera): PKCS#7 padding and AES-128-CBC        *)
(* encryption.                                                             *)
(***************************************************************************)
\* PKCS#7: 1..BlockSize pad bytes, each the pad length; a whole block of pad
\* when the length is already a multiple of BlockSize
Pkcs7Pad(data) ==
    LET p == BlockSize - (Len(data) % BlockSize) IN data \o Rep(p, p)

\* CBC encryption of whole blocks: C(i) = E(P(i) xor C(i-1)), C(0) = iv
RECURSIVE CbcEncryptFrom(_, _, _, _)
CbcEncryptFrom(key, prev, pt, i) ==
    IF i > Len(pt) \div BlockSize THEN <<>>
    ELSE LET c == AesEncryptBlock(key, XorBlock(BlockOf(pt, i), prev))
         IN c \o CbcEncryptFrom(key, c, pt, i + 1)

EncryptAesCbc(plaintext, key, iv0) == CbcEncryptFrom(key, iv0, Pkcs7Pad(plaintext), 1)

(***************************************************************************)
(* Inputs of the cipher calls.                                             *)
(***************************************************************************)
BytesOf(n, seed, step) == [i \in 1..n |-> (seed + step * i) % 256]

GoodKeys == {BytesOf(KeySize, 48, 1), BytesOf(KeySize, 7, 13)}

\* 16-byte keys, and keys of 15, 17 and 24 bytes
Keys == GoodKeys \cup {BytesOf(KeySize - 1, 48, 1), BytesOf(KeySize + 1, 48, 1),
                       BytesOf(24, 48, 1)}

GoodIvs == {BytesOf(IvSize, 160, 5)}

\* 16-byte IVs, and IVs of 15 and 17 bytes
Ivs == GoodIvs \cup {BytesOf(IvSize, 3, 0), BytesOf(IvSize - 1, 160, 5),
                     BytesOf(IvSize + 1, 160, 5)}

\* plaintexts of every length up to the bound, some ending like a pad
Plaintexts ==
    UNION {{BytesOf(n, 1, 0), BytesOf(n, BlockSize, 0), BytesOf(n, 60, 9)} : n \in 0..MaxPlainLen}

Mangles == {"none", "truncate", "append", "empty", "flip_last", "flip_first"}

\* what reaches the decrypting side of a ciphertext
Mangle(ct, how) ==
    CASE how = "none" -> ct
      [] how = "truncate" -> SubSeq(ct, 1, Len(ct) - 1)
      [] how = "append" -> ct \o <<0>>
      [] how = "empty" -> <<>>
      [] how = "flip_last" -> [ct EXCEPT ![Len(ct)] = Xor8(@, 1)]
      [] how = "flip_first" -> [ct EXCEPT ![1] = Xor8(@, 255)]

PadBytes == {0, 1, 2, 3, BlockSize, BlockSize + 1, 255}

(***************************************************************************)
(* Calls of the cipher.                                                    *)
(***************************************************************************)
CallPkcs7Unpad ==
    /\ op = "none"
    /\ \E n \in 0..MaxDataLen, f \in {0, 1, 7}, p \in PadBytes :
        \E c \in 0..n :
            LET data == Rep(n - c, f) \o Rep(c, p)
            IN /\ op' = "pkcs7_unpad"
               /\ args' = [data |-> data]
               /\ ret' = pkcs7_unpad(data)
               /\ UNCHANGED <<encoded, mainVars, keystoreVars>>

CallDecryptAesCbc ==
    /\ op = "none"
    /\ \E pt \in Plaintexts, ekey \in GoodKeys, eiv \in GoodIvs,
          key \in Keys, iv0 \in Ivs, how \in Mangles :
            LET ct == Mangle(EncryptAesCbc(pt, ekey, eiv), how)
            IN /\ op' = "decrypt_aes_cbc"
               /\ args' = [ciphertext |-> ct, key |-> key, iv |-> iv0,
                           plaintext |-> pt, enc_key |-> ekey, enc_iv |-> eiv, how |-> how]
               /\ ret' = decrypt_aes_cbc(ct, key, iv0)
               /\ UNCHANGED <<encoded, mainVars, keystoreVars>>

NextCipher == CallPkcs7Unpad \/ CallDecryptAesCbc

SpecCipher == Init /\ [][NextCipher]_vars


(***************************************************************************)
(* Properties of the cipher.                                               *)
(***************************************************************************)
KeyLengthMessage == "AES-128 richiede una chiave di 16 byte"
IvLengthMessage == "IV deve essere di 16 byte"
PaddingMessage == "padding non valido"

\* the call decrypts what the encrypting side produced, with its key and IV
IsRoundTrip ==
    /\ op = "decrypt_aes_cbc"
    /\ args.how = "none"
    /\ args.key = args.enc_key
    /\ args.iv = args.enc_iv

\* C5: decrypt_aes_cbc of the AES-128-CBC encryption of the PKCS#7-padded
\* plaintext, under the same 16-byte key and IV, returns the plaintext
C5_DecryptInvertsEncrypt ==
    IsRoundTrip => ret = Ok(args.plaintext)

C5_Witness ==
    /\ IsRoundTrip
    /\ Len(args.plaintext) = BlockSize
    /\ Len(args.ciphertext) = 2 * BlockSize
    /\ ret.ok
    /\ ret.val = args.plaintext

\* the pad that ends data is rejected: p = 0, p > 16, or the last p bytes are
\* not all p
BadPadding(data) ==
    LET p == Last(data)
    IN \/ p = 0
       \/ p > 16
       \/ p > Len(data)
       \/ \E i \in (Len(data) - p + 1)..Len(data) : data[i] # p

\* what the padding check is to return for data
PaddingVerdict(data, r) ==
    IF BadPadding(data)
    THEN ~r.ok /\ r.val = <<>> /\ r.msg = PaddingMessage
    ELSE r.ok /\ r.val = SubSeq(data, 1, Len(data) - Last(data))

\* the call reaches the padding check with a non-empty decrypted text
DecryptsBlocks ==
    /\ op = "decrypt_aes_cbc"
    /\ Len(args.key) = 16
    /\ Len(args.iv) = 16
    /\ Len(args.ciphertext) > 0
    /\ Len(args.ciphertext) % 16 = 0

\* C6: with p the last byte of the data, pkcs7_unpad (and with it
\* decrypt_aes_cbc) fails with the padding error when p = 0, p > 16 or the last
\* p bytes are not all p, and returns the data without its last p bytes otherwise
C6_PaddingRejection ==
    /\ (op = "pkcs7_unpad" /\ args.data # <<>>) => PaddingVerdict(args.data, ret)
    /\ DecryptsBlocks =>
          PaddingVerdict(CbcDecrypt(args.key, args.iv, args.ciphertext), ret)

C6_Witness ==
    /\ op = "pkcs7_unpad"
    /\ Len(args.data) = 18
    /\ Last(args.data) = 3
    /\ args.data[17] = 3
    /\ args.data[16] = 7
    /\ ~ret.ok
    /\ ret.msg = PaddingMessage

\* a damaged ciphertext decrypts to a text whose pad is rejected
C6_DecryptRejectsReached ==
    /\ DecryptsBlocks
    /\ args.how = "flip_first"
    /\ Len(args.ciphertext) = 16
    /\ BadPadding(CbcDecrypt(args.key, args.iv, args.ciphertext))
    /\ ~ret.ok
    /\ ret.msg = PaddingMessage

\* a text with a valid pad is returned without it
C6_AcceptsReached ==
    /\ op = "pkcs7_unpad"
    /\ Len(args.data) = 18
    /\ Last(args.data) = 16
    /\ ~BadPadding(args.data)
    /\ ret = Ok(<<7, 7>>)

\* C7: a key that is not 16 bytes raises the key-length error, a 16-byte key
\* with an IV that is not 16 bytes raises the IV-length error, both before the
\* cipher is created (line 54) and with no plaintext returned
C7_KeyAndIvLengthChecked ==
    op = "decrypt_aes_cbc" =>
        /\ Len(args.key) # 16 =>
              ~ret.ok /\ ret.val = <<>> /\ ret.msg = KeyLengthMessage /\ ret.line < 54
        /\ (Len(args.key) = 16 /\ Len(args.iv) # 16) =>
              ~ret.ok /\ ret.val = <<>> /\ ret.msg = IvLengthMessage /\ ret.line < 54

C7_Witness ==
    /\ op = "decrypt_aes_cbc"
    /\ Len(args.key) = 15
    /\ Len(args.iv) = 17
    /\ args.how = "none"
    /\ ~ret.ok
    /\ ret.msg = KeyLengthMessage

\* the error a caller catches as the padding error: the class pkcs7_unpad raises
IsPaddingError(r) == ~r.ok /\ r.exc = pkcs7_unpad(<<0>>).exc

\* C8: with a valid key and IV, a ciphertext whose length is not a positive
\* multiple of 16 fails with a ciphertext-length error that is not the padding
\* error, and returns no plaintext
C8_CiphertextLengthError ==
    (/\ op = "decrypt_aes_cbc"
     /\ Len(args.key) = 16
     /\ Len(args.iv) = 16
     /\ (Len(args.ciphertext) = 0 \/ Len(args.ciphertext) % 16 # 0))
        => /\ ~ret.ok
           /\ ~IsPaddingError(ret)
           /\ ret.line \notin {40, 43, 45}


(***************************************************************************)
(* decrypt_from_cid.py: parse_cid_file, main.  The command runs as a       *)
(* process: mpc is the place main has reached, outfile the output file     *)
(* (empty until written), exit_code the process's exit code (-1 while it   *)
(* runs).  A line of the .cid file is its characters.                      *)
(***************************************************************************)
\* str.strip(): the blanks at both ends removed
RECURSIVE Strip(_)
Strip(text) ==
    IF text = <<>> THEN text
    ELSE IF Head(text) = 32 THEN Strip(Tail(text))
    ELSE IF Last(text) = 32 THEN Strip(SubSeq(text, 1, Len(text) - 1))
    ELSE text

\* the place of the first "=" of a line, 0 when it has none
FirstEq(line) ==
    LET at == {i \in 1..Len(line) : line[i] = 61}
    IN IF at = {} THEN 0 ELSE CHOOSE i \in at : \A j \in at : i <= j

\* parse_cid_file: the dict of the "key=value" lines, split at the first "=",
\* key and value stripped, a later line replacing an earlier one with the same
\* key; lines that are empty or have no "=" are skipped
RECURSIVE ParseLines(_, _)
ParseLines(lines, data) ==
    IF lines = <<>> THEN data
    ELSE LET line == Head(lines)
             eq == FirstEq(line)
         IN IF line = <<>> \/ eq = 0 THEN ParseLines(Tail(lines), data)
            ELSE LET key == Strip(SubSeq(line, 1, eq - 1))
                     value == Strip(SubSeq(line, eq + 1, Len(line)))
                     others == SelectSeq(data, LAMBDA e : e.k # key)
                 IN ParseLines(Tail(lines), others \o <<[k |-> key, v |-> value]>>)

parse_cid_file(lines) == ParseLines(lines, <<>>)

\* dict.get(key, default)
Get(data, key, default) ==
    LET hits == SelectSeq(data, LAMBDA e : e.k = key)
    IN IF hits = <<>> THEN default ELSE hits[1].v

\* the value of a hex digit character, 16 for any other character
HexValue(c) ==
    IF c >= 48 /\ c <= 57 THEN c - 48
    ELSE IF c >= 97 /\ c <= 102 THEN c - 87
    ELSE IF c >= 65 /\ c <= 70 THEN c - 55
    ELSE 16

\* bytes.fromhex(h): pairs of hex digits
BytesFromHex(text) ==
    LET h == [i \in 1..Len(text) |-> HexValue(text[i])]
    IN IF ~IsHex(h) \/ Len(h) % 2 = 1
       THEN Raise("ValueError", "non-hexadecimal number found in fromhex()", 83)
       ELSE Ok(BytesOfHexDigits(h))

\* lines 91-97: what is fetched from IPFS: the file CID when there is one,
\* else dir_cid/name when both are there, else nothing
Locator(file_cid, dir_cid, name) ==
    IF file_cid # <<>> THEN file_cid
    ELSE IF dir_cid # <<>> /\ name # <<>> THEN dir_cid \o <<47>> \o name
    ELSE <<>>

(***************************************************************************)
(* Inputs of the command.                                                  *)
(***************************************************************************)
\* "0123456789ABCDEF", the default of --key
DefaultKeyText == <<48, 49, 50, 51, 52, 53, 54, 55, 56, 57, 65, 66, 67, 68, 69, 70>>

\* --key: the default, a 15-character key, 16 characters of which one takes
\* two bytes
KeyTexts == {DefaultKeyText, SubSeq(DefaultKeyText, 1, 15),
             SubSeq(DefaultKeyText, 1, 15) \o <<233>>}

MainIv == BytesOf(IvSize, 160, 5)

\* the characters of hex digits
HexText(h) == [i \in 1..Len(h) |-> IF h[i] < 10 THEN 48 + h[i] ELSE 87 + h[i]]

\* the iv= value: 16 bytes, 15 bytes, an odd number of digits, no hex ("zz"),
\* empty
IvHexes == {HexText(HexDigits(MainIv)), HexText(HexDigits(SubSeq(MainIv, 1, 15))),
            HexText(SubSeq(HexDigits(MainIv), 1, 31)), <<122, 122>>, <<>>}

MainPlaintexts == {BytesOf(5, 60, 9), BytesOf(BlockSize, 1, 0)}

\* what the store (or the --enc file) holds: the encryption of a photo under
\* the default key, as written or damaged
StoredCiphertexts ==
    {Mangle(EncryptAesCbc(pt, Utf8(DefaultKeyText), MainIv), how) :
        pt \in MainPlaintexts, how \in {"none", "truncate", "empty", "flip_last"}}

\* "cid", "dir_cid", "name", "iv"
KeyCid == <<99, 105, 100>>
KeyDirCid == <<100, 105, 114, 95, 99, 105, 100>>
KeyName == <<110, 97, 109, 101>>
KeyIv == <<105, 118>>

\* "QmF", "QmD", "p.enc"
TextCid == <<81, 109, 70>>
TextDirCid == <<81, 109, 68>>
TextName == <<112, 46, 101, 110, 99>>

\* the line "k=v", with blanks around the key and the value when pad
KvLine(k, v, pad) ==
    IF pad THEN <<32>> \o k \o <<32, 61, 32>> \o v \o <<32>> ELSE k \o <<61>> \o v

Absent == <<0>>

\* the lines of a .cid file
Descriptor(cid, dir_cid, name, iv_hex, shape) ==
    LET pad == (shape = "padded")
        body == (IF cid = Absent THEN <<>> ELSE <<KvLine(KeyCid, cid, pad)>>)
                \o (IF dir_cid = Absent THEN <<>> ELSE <<KvLine(KeyDirCid, dir_cid, pad)>>)
                \o (IF name = Absent THEN <<>> ELSE <<KvLine(KeyName, name, pad)>>)
                \o (IF iv_hex = Absent THEN <<>> ELSE <<KvLine(KeyIv, iv_hex, pad)>>)
    IN CASE shape = "text_lines" -> <<<<>>, <<35, 32, 99, 105, 100>>>> \o body \o <<<<>>>>
         [] shape = "cid_reset" -> body \o <<KvLine(KeyCid, <<>>, FALSE)>>
         [] OTHER -> body

Shapes == {"plain", "padded", "text_lines", "cid_reset"}

(***************************************************************************)
(* The steps of main.                                                      *)
(***************************************************************************)
Exit(code) ==
    /\ mpc' = "exit"
    /\ exit_code' = code

\* an exception no handler catches: the interpreter ends with code 1
Crash ==
    /\ mpc' = "crashed"
    /\ exit_code' = 1

\* lines 60-65: the arguments
MainStart ==
    /\ mpc = "idle"
    /\ \E cid \in {Absent, <<>>, TextCid}, dir_cid \in {Absent, TextDirCid},
          name \in {Absent, TextName}, iv_hex \in IvHexes \cup {Absent},
          shape \in Shapes, exists \in BOOLEAN, key \in KeyTexts,
          enc \in {"", "photo.enc.local", "missing.enc"} :
            margs' = [cid_file_exists |-> exists,
                      lines |-> Descriptor(cid, dir_cid, name, iv_hex, shape),
                      key |-> key, enc |-> enc]
    /\ mpc' = "check_file"
    /\ UNCHANGED <<codecVars, keystoreVars, meta, iv, cipher_bytes, source, outfile, exit_code>>

\* lines 67-70
MainCheckFile ==
    /\ mpc = "check_file"
    /\ IF ~margs.cid_file_exists THEN Exit(1)
       ELSE mpc' = "parse" /\ UNCHANGED exit_code
    /\ UNCHANGED <<codecVars, keystoreVars, margs, meta, iv, cipher_bytes, source, outfile>>

\* lines 72-76
MainParse ==
    /\ mpc = "parse"
    /\ LET data == parse_cid_file(margs.lines)
       IN meta' = [file_cid |-> Get(data, KeyCid, <<>>),
                   dir_cid |-> Get(data, KeyDirCid, <<>>),
                   name |-> Get(data, KeyName, <<>>),
                   iv_hex |-> Get(data, KeyIv, <<>>)]
    /\ mpc' = "check_iv"
    /\ UNCHANGED <<codecVars, keystoreVars, margs, iv, cipher_bytes, source, outfile, exit_code>>

\* lines 78-86
MainCheckIv ==
    /\ mpc = "check_iv"
    /\ IF meta.iv_hex = <<>> THEN Exit(1) /\ UNCHANGED iv
       ELSE LET b == BytesFromHex(meta.iv_hex)
            IN IF ~b.ok THEN Exit(1) /\ UNCHANGED iv
               ELSE iv' = b.val /\ mpc' = "load" /\ UNCHANGED exit_code
    /\ UNCHANGED <<codecVars, keystoreVars, margs, meta, cipher_bytes, source, outfile>>

\* line 89: the local file is read (and may not be there)
MainLoadEnc ==
    /\ mpc = "load"
    /\ margs.enc # ""
    /\ IF margs.enc = "missing.enc" THEN Crash /\ UNCHANGED <<cipher_bytes, source>>
       ELSE \E ct \in StoredCiphertexts :
               /\ cipher_bytes' = ct
               /\ source' = "enc"
               /\ mpc' = "decrypt"
               /\ UNCHANGED exit_code
    /\ UNCHANGED <<codecVars, keystoreVars, margs, meta, iv, outfile>>

\* lines 91-94: the ciphertext is fetched from IPFS (and the fetch may fail)
MainLoadIpfs ==
    /\ mpc = "load"
    /\ margs.enc = ""
    /\ Locator(meta.file_cid, meta.dir_cid, meta.name) # <<>>
    /\ \/ Crash /\ UNCHANGED <<cipher_bytes, source>>
       \/ \E ct \in StoredCiphertexts :
               /\ cipher_bytes' = ct
               /\ source' = "ipfs"
               /\ mpc' = "decrypt"
               /\ UNCHANGED exit_code
    /\ UNCHANGED <<codecVars, keystoreVars, margs, meta, iv, outfile>>

\* lines 95-97
MainNoLocator ==
    /\ mpc = "load"
    /\ margs.enc = ""
    /\ Locator(meta.file_cid, meta.dir_cid, meta.name) = <<>>
    /\ Exit(1)
    /\ UNCHANGED <<codecVars, keystoreVars, margs, meta, iv, cipher_bytes, source, outfile>>

\* lines 99-109 with the write moved into the handler: what came from the
\* store is saved when decryption raises
MainDecryptSavesOnError ==
    /\ mpc = "decrypt"
    /\ LET plain == decrypt_aes_cbc(cipher_bytes, Utf8(margs.key), iv)
       IN IF ~plain.ok THEN outfile' = <<cipher_bytes>> /\ Exit(1)
          ELSE outfile' = <<plain.val>> /\ Exit(0)
    /\ UNCHANGED <<codecVars, keystoreVars, margs, meta, iv, cipher_bytes, source>>

\* lines 99-109
MainDecrypt ==
    /\ mpc = "decrypt"
    /\ LET plain == decrypt_aes_cbc(cipher_bytes, Utf8(margs.key), iv)
       IN IF ~plain.ok THEN Exit(1) /\ UNCHANGED outfile
          ELSE outfile' = <<plain.val>> /\ Exit(0)
    /\ UNCHANGED <<codecVars, keystoreVars, margs, meta, iv, cipher_bytes, source>>

NextMain ==
    \/ MainStart
    \/ MainCheckFile
    \/ MainParse
    \/ MainCheckIv
    \/ MainLoadEnc
    \/ MainLoadIpfs
    \/ MainNoLocator
    \/ MainDecrypt

SpecMain == Init /\ [][NextMain]_vars

(***************************************************************************)
(* Properties of the command.                                              *)
(***************************************************************************)
\* the descriptor names the ciphertext in exactly one way: the content id
\* alone, or the directory content id together with the file name
ExactlyOneLocator ==
    \/ meta.file_cid # <<>> /\ meta.dir_cid = <<>> /\ meta.name = <<>>
    \/ meta.file_cid = <<>> /\ meta.dir_cid # <<>> /\ meta.name # <<>>

\* C10: ciphertext is located from the descriptor only when exactly one
\* locator is present: cid alone, or dir_cid together with name
C10_ExactlyOneLocator ==
    source = "ipfs" => ExactlyOneLocator


\* the IV of the descriptor is there and is hex, and iv holds its bytes
IvValidated ==
    /\ meta.iv_hex # <<>>
    /\ BytesFromHex(meta.iv_hex).ok
    /\ iv = BytesFromHex(meta.iv_hex).val

\* what decrypt_aes_cbc makes of the ciphertext, the key and the IV of the run
RunPlain == decrypt_aes_cbc(cipher_bytes, Utf8(margs.key), iv)

\* the run has one of the causes of failure: no descriptor file, no IV or an
\* IV that is not hex, no locator (and no --enc), or a decryption that raises
FailureCause ==
    \/ ~margs.cid_file_exists
    \/ meta.iv_hex = <<>>
    \/ ~BytesFromHex(meta.iv_hex).ok
    \/ margs.enc = "" /\ Locator(meta.file_cid, meta.dir_cid, meta.name) = <<>>
    \/ source # "none" /\ ~RunPlain.ok

C12_StateOrder ==
    /\ outfile # <<>> =>
          /\ mpc = "exit" /\ exit_code = 0
          /\ source # "none" /\ RunPlain.ok /\ outfile = <<RunPlain.val>>
    /\ (mpc = "exit" /\ FailureCause) => (exit_code = 1 /\ outfile = <<>>)
    /\ source # "none" => IvValidated

\* C12: in every run of main the output file is written only after
\* decrypt_aes_cbc has returned without error (and holds what it returned);
\* a run that ends because the descriptor file is missing, the IV is missing
\* or not hex, no locator is available or decryption raised returns 1 and
\* writes no output; the IV is validated before ciphertext is read or fetched
C12_WriteOnlyAfterDecrypt ==
    /\ []C12_StateOrder
    /\ [][outfile' # outfile =>
            (mpc = "decrypt" /\ RunPlain.ok /\ outfile' = <<RunPlain.val>> /\ exit_code' = 0)]_vars
    /\ [][(cipher_bytes' # cipher_bytes \/ source' # source) =>
            (mpc = "load" /\ IvValidated)]_vars

\* a run that fetched the ciphertext and ended because decryption raised
C12_Witness ==
    /\ mpc = "exit" /\ exit_code = 1 /\ outfile = <<>>
    /\ source = "ipfs" /\ IvValidated /\ Len(iv) = IvSize
    /\ ~RunPlain.ok /\ RunPlain.exc = "ValueError" /\ RunPlain.msg = PaddingMessage

\* a run that wrote its output
C12_WrittenReached ==
    /\ mpc = "exit" /\ exit_code = 0 /\ outfile = <<BytesOf(5, 60, 9)>>

\* runs that ended on each of the other causes
C12_EndedEarlyReached ==
    /\ mpc = "exit" /\ exit_code = 1 /\ source = "none"
    /\ margs.cid_file_exists /\ IvValidated /\ margs.enc = ""

(***************************************************************************)
(* sign_photo.py: load_credentials and the signing flow of main.  The      *)
(* credential file is missing, no JSON, or a dict of cameras in file       *)
(* order; camera ids and addresses are their characters.                   *)
(***************************************************************************)
\* Python None
None == <<-1>>

\* "not x" of a str or None
Falsy(x) == x = None \/ x = <<>>

\* str.replace('0x', ''): every "0x" is removed, not only a leading one
RECURSIVE Replace0x(_)
Replace0x(text) ==
    IF text = <<>> THEN <<>>
    ELSE IF Len(text) >= 2 /\ text[1] = 48 /\ text[2] = 120
    THEN Replace0x(SubSeq(text, 3, Len(text)))
    ELSE <<Head(text)>> \o Replace0x(Tail(text))

\* str.lower()
Lower(text) == [i \in 1..Len(text) |-> IF text[i] >= 65 /\ text[i] <= 90 THEN text[i] + 32 ELSE text[i]]

\* an entry of the credential file
Camera(id, address, prefixed, key) ==
    [id |-> id, address |-> address, privateKey |-> [prefixed |-> prefixed, key |-> key]]

\* lines 47-53 and 61-67: the credentials of an entry, its key with the 0x
Credentials(entry) ==
    [camera_id |-> entry.id,
     address |-> entry.address,
     private_key |-> [prefixed |-> TRUE, key |-> entry.privateKey.key]]

\* the first entry of cameras at which the loop returns, <<>> when it ends
FirstHit(hits) == IF hits = <<>> THEN <<>> ELSE <<hits[1]>>

\* lines 45-46: the first entry whose key is camera_id, 0x and case aside
FirstById(cameras, clean) ==
    FirstHit(SelectSeq(cameras, LAMBDA e : Lower(Replace0x(e.id)) = clean))

\* lines 59-60: the first entry whose address is address, case aside
FirstByAddress(cameras, address) ==
    FirstHit(SelectSeq(cameras, LAMBDA e : Lower(e.address) = Lower(address)))

load_credentials(file, camera_id, address) ==
    IF file.state = "missing" THEN Raise("SystemExit", "1", 73)
    ELSE IF file.state = "bad_json" THEN Raise("SystemExit", "1", 76)
    ELSE IF file.cameras = <<>> THEN Raise("ValueError", "File JSON vuoto", 33)
    ELSE LET \* lines 36-38: no camera named: the first one of the file
             cid == IF Falsy(camera_id) /\ Falsy(address) THEN file.cameras[1].id ELSE camera_id
         IN IF ~Falsy(cid)
            THEN LET clean == Lower(Replace0x(cid))
                     hit == FirstById(file.cameras, clean)
                 IN IF hit # <<>> THEN Ok(Credentials(hit[1]))
                    ELSE Raise("ValueError", "Camera ID non trovato", 55)
            ELSE LET hit == FirstByAddress(file.cameras, address)
                 IN IF hit # <<>> THEN Ok(Credentials(hit[1]))
                    ELSE Raise("ValueError", "Address non trovato", 69)

\* lines 168-176: "0x" + sha256(photo).hexdigest(), a 64-digit hex string
PhotoHashOf(photo) == HashStr(TRUE, HexDigits(Digest32(photo)))

\* main, lines 144-230: the photo is hashed, the credentials of --camera-id
\* loaded, the photo signed; the result is what signed_photo.json holds
sign_main(photo, file, camera_id, location, metadata, nonce, pfx) ==
    IF photo = 0 THEN Raise("SystemExit", "1", 177)
    ELSE LET credentials == load_credentials(file, camera_id, None)
         IN IF ~credentials.ok THEN credentials
            ELSE LET signed_data == sign_photo(credentials.val.private_key.key, PhotoHashOf(photo),
                                               location, metadata, nonce, pfx)
                 IN IF ~signed_data.ok THEN signed_data
                    ELSE Ok([signed_data |-> signed_data.val,
                             camera_id |-> credentials.val.camera_id])

(***************************************************************************)
(* Inputs of the signing flow.                                             *)
(***************************************************************************)
\* "0xab", "0xCD", "a0xb" with the addresses "0xA1", "0xb2", "0xc3"
CamAB == Camera(<<48, 120, 97, 98>>, <<48, 120, 65, 49>>, FALSE, PrivKey(32, "in_range", 1))
CamCD == Camera(<<48, 120, 67, 68>>, <<48, 120, 98, 50>>, TRUE, PrivKey(32, "in_range", 2))
CamOdd == Camera(<<97, 48, 120, 98>>, <<48, 120, 99, 51>>, FALSE, PrivKey(32, "in_range", 5))

CredentialFiles ==
    {[state |-> "missing", cameras |-> <<>>], [state |-> "bad_json", cameras |-> <<>>]}
    \cup {[state |-> "ok", cameras |-> c] :
            c \in {<<>>, <<CamAB>>, <<CamCD>>, <<CamAB, CamCD>>, <<CamCD, CamAB>>,
                   <<CamOdd, CamAB>>, <<CamCD, CamOdd>>}}

\* None, "", "0xab", "ab", "AB", "cd", "0xef", "0x"
CameraIds == {None, <<>>, <<48, 120, 97, 98>>, <<97, 98>>, <<65, 66>>, <<99, 100>>,
              <<48, 120, 101, 102>>, <<48, 120>>}

\* None, "", "0xa1", "0xB2", "0xff"
Addresses == {None, <<>>, <<48, 120, 97, 49>>, <<48, 120, 66, 50>>, <<48, 120, 102, 102>>}

(***************************************************************************)
(* Calls of the signing flow.                                              *)
(***************************************************************************)
CallLoadCredentials ==
    /\ op = "none"
    /\ \E file \in CredentialFiles, c \in CameraIds, a \in Addresses :
        /\ op' = "load_credentials"
        /\ args' = [file |-> file, camera_id |-> c, address |-> a]
        /\ ret' = load_credentials(file, c, a)
        /\ UNCHANGED <<encoded, mainVars, keystoreVars>>

\* --camera-id is required: the command line always gives a str
CallSignMain ==
    /\ op = "none"
    /\ \E photo \in 0..2, file \in CredentialFiles, c \in CameraIds \ {None},
          n \in {Nonce0, Nonce1}, pfx \in BOOLEAN :
        /\ op' = "sign_main"
        /\ args' = [photo |-> photo, file |-> file, camera_id |-> c, nonce |-> n, pfx |-> pfx]
        /\ ret' = sign_main(photo, file, c, <<97>>, <<98>>, n, pfx)
        /\ UNCHANGED <<encoded, mainVars, keystoreVars>>

NextSignFlow == CallLoadCredentials \/ CallSignMain

SpecSignFlow == Init /\ [][NextSignFlow]_vars

(***************************************************************************)
(* Properties of the signing flow.                                         *)
(***************************************************************************)
\* the camera asked for is in the credential file (0x and case aside)
InStore(file, camera_id) ==
    \E i \in 1..Len(file.cameras) :
        Lower(Replace0x(file.cameras[i].id)) = Lower(Replace0x(camera_id))

\* no camera is asked for: the identifier is empty or absent
NoCameraAsked(camera_id) == camera_id = None \/ camera_id = <<>>

\* C11: when the requested camera identifier is empty, absent or not in the
\* credential store, load_credentials fails and the flow signs nothing: no
\* signature is made with another camera's credential
C11_NoFallbackCamera ==
    /\ (op = "load_credentials" /\ Falsy(args.address)
          /\ (NoCameraAsked(args.camera_id) \/ ~InStore(args.file, args.camera_id)))
          => ~ret.ok
    /\ (op = "sign_main"
          /\ (NoCameraAsked(args.camera_id) \/ ~InStore(args.file, args.camera_id)))
          => ~ret.ok


(***************************************************************************)
(* get_camera_wallet.py: save_private_key and load_private_key.  A call of *)
(* save_private_key is a sequence of file operations; the processes take   *)
(* their steps in any order.                                               *)
(***************************************************************************)
\* keys[camera_id] = {...}: the wallet, with its createdAt
Put(keys, camera_id, wallet_data) ==
    [c \in DOMAIN keys \cup {camera_id} |-> IF c = camera_id THEN wallet_data ELSE keys[c]]

\* json.load(f) of the key file
JsonLoad(file) ==
    IF file.state = "json" THEN Ok(file.keys)
    ELSE Raise("JSONDecodeError", "Expecting value", 117)

\* what the file holds after json.dump(keys, f) and close: the writer starts
\* at offset 0 of a file it has truncated when it opened it; what another
\* writer has written since stays beyond the end of the shorter text
Dumped(file, keys) ==
    IF file.state = "empty" \/ file.state = "absent"
    THEN {[state |-> "json", keys |-> keys]}
    ELSE IF file.state = "json" /\ Cardinality(DOMAIN file.keys) < Cardinality(DOMAIN keys)
    THEN {[state |-> "json", keys |-> keys]}
    ELSE IF file.state = "json" /\ Cardinality(DOMAIN file.keys) > Cardinality(DOMAIN keys)
    THEN {[state |-> "corrupt", keys |-> EmptyKeys]}
    ELSE {[state |-> "json", keys |-> keys], [state |-> "corrupt", keys |-> EmptyKeys]}

load_private_key(file, camera_id) ==
    IF file.state = "absent" THEN Raise("FileNotFoundError", "File non trovato", 146)
    ELSE LET keys == JsonLoad(file)
         IN IF ~keys.ok THEN Raise("JSONDecodeError", "Expecting value", 149)
            ELSE IF camera_id \notin DOMAIN keys.val
            THEN Raise("KeyError", "Private key non trovata", 152)
            ELSE Ok(keys.val[camera_id])

\* lines 107-112: the call, with a wallet just generated
SaveCall(p) ==
    /\ proc[p].pc = "idle"
    /\ Len(calls) < MaxSaves
    /\ \E camera_id \in CameraNames :
        /\ proc' = [proc EXCEPT ![p] = [pc |-> "exists", camera_id |-> camera_id,
                                        wallet_data |-> Len(calls) + 1, keys |-> EmptyKeys]]
        /\ calls' = Append(calls, camera_id)
    /\ UNCHANGED <<codecVars, mainVars, key_file, saved>>

\* line 115: os.path.exists
SaveExists(p) ==
    /\ proc[p].pc = "exists"
    /\ proc' = [proc EXCEPT ![p].pc = IF key_file.state = "absent" THEN "open_w" ELSE "read"]
    /\ UNCHANGED <<codecVars, mainVars, key_file, calls, saved>>

\* lines 116-117: the file is read; a file that is no JSON ends the call
SaveRead(p) ==
    /\ proc[p].pc = "read"
    /\ LET keys == JsonLoad(key_file)
       IN IF keys.ok THEN proc' = [proc EXCEPT ![p].pc = "open_w", ![p].keys = keys.val]
          ELSE proc' = [proc EXCEPT ![p] = IdleProc]
    /\ UNCHANGED <<codecVars, mainVars, key_file, calls, saved>>

\* lines 120-128: the entry is set and the file opened for writing, which
\* truncates it
SaveOpenW(p) ==
    /\ proc[p].pc = "open_w"
    /\ proc' = [proc EXCEPT ![p].pc = "dump",
                            ![p].keys = Put(proc[p].keys, proc[p].camera_id, proc[p].wallet_data)]
    /\ key_file' = [state |-> "empty", keys |-> EmptyKeys]
    /\ UNCHANGED <<codecVars, mainVars, calls, saved>>

\* lines 129-138: the whole dict is written, the file closed, the call returns
SaveDump(p) ==
    /\ proc[p].pc = "dump"
    /\ key_file' \in Dumped(key_file, proc[p].keys)
    /\ saved' = saved \cup {proc[p].camera_id}
    /\ proc' = [proc EXCEPT ![p] = IdleProc]
    /\ UNCHANGED <<codecVars, mainVars, calls>>

NextKeystore ==
    \E p \in Procs :
        \/ SaveCall(p)
        \/ SaveExists(p)
        \/ SaveRead(p)
        \/ SaveOpenW(p)
        \/ SaveDump(p)

SpecKeystore == Init /\ [][NextKeystore]_vars

(***************************************************************************)
(* Properties of the key file.                                             *)
(***************************************************************************)
\* no call of save_private_key is under way
Quiescent == \A p \in Procs : proc[p].pc = "idle"

\* the calls made so far are for distinct camera identifiers
DistinctCalls == \A i, j \in 1..Len(calls) : calls[i] = calls[j] => i = j

\* C14: after any sequence or interleaving of save_private_key calls for
\* distinct camera identifiers, the key file holds an entry for every camera
\* that was saved (a save leaves the entries of the other cameras as they are)
C14_EverySavedCameraKept ==
    (Quiescent /\ DistinctCalls) =>
        \A c \in saved : load_private_key(key_file, c).ok


====
